---------------------------- MODULE Spec2Model ----------------------------
(***************************************************************************)
(* Model of the graduate-suitability scorer of grad-job-scraper            *)
(* (src/scoring.py).  Texts are strings handled character by character     *)
(* (Len, SubSeq and \o on strings), so that substring containment,         *)
(* normalisation and the regular expressions of the years extractor are    *)
(* computed as the code computes them.                                     *)
(*                                                                         *)
(* An optional value (Python's Optional[...]) is a sequence of length at   *)
(* most one: None is << >>, a present value x is << x >>.                  *)
(* A float parsed from a decimal literal is the record                     *)
(* [whole |-> n, frac |-> digits] with the trailing zeros of the           *)
(* fractional digits removed, so that equal floats are equal records.      *)
(***************************************************************************)
EXTENDS Integers, Sequences, FiniteSets, TLC

VARIABLES title, description, department, seniority, result, text, years, pc

vars == <<title, description, department, seniority, result, text, years, pc>>

-----------------------------------------------------------------------------
(* Bounds of the model.                                                    *)

\* Largest number of phrases joined into one job description.
MaxPhrases == 2

\* Largest number of phrases joined into one text given to extract_years.
MaxYearsPhrases == 3

-----------------------------------------------------------------------------
(* Optional values.                                                        *)

None == << >>

Some(x) == << x >>

IsNone(o) == o = << >>

Get(o) == o[1]

-----------------------------------------------------------------------------
(* Characters and strings.                                                 *)

UpperLetters == "ABCDEFGHIJKLMNOPQRSTUVWXYZ"

LowerLetters == "abcdefghijklmnopqrstuvwxyz"

Digits == "0123456789"

\* The character of s at position i, "" when i is outside s.
CharAt(s, i) == IF i >= 1 /\ i <= Len(s) THEN SubSeq(s, i, i) ELSE ""

\* The positions of character c in the string s.
IndexIn(s, c) == {i \in 1..Len(s) : SubSeq(s, i, i) = c}

IsSpace(c) == c \in {" ", "\t", "\n", "\r"}

\* The value of each decimal digit.
DigitVal == [c \in {SubSeq(Digits, i, i) : i \in 1..Len(Digits)} |->
                (CHOOSE k \in IndexIn(Digits, c) : TRUE) - 1]

IsDigit(c) == c \in DOMAIN DigitVal

\* The lower-case letter of each upper-case letter.
LowerOf == [c \in {SubSeq(UpperLetters, i, i) : i \in 1..Len(UpperLetters)} |->
               LET i == CHOOSE k \in IndexIn(UpperLetters, c) : TRUE
               IN  SubSeq(LowerLetters, i, i)]

\* str.lower() of one character.
LowerChar(c) == IF c \in DOMAIN LowerOf THEN LowerOf[c] ELSE c

RECURSIVE Lower(_)
\* str.lower(), computed on the two halves of the string.
Lower(s) ==
    IF Len(s) = 0 THEN ""
    ELSE IF Len(s) = 1 THEN LowerChar(s)
    ELSE LET h == Len(s) \div 2
         IN  Lower(SubSeq(s, 1, h)) \o Lower(SubSeq(s, h + 1, Len(s)))

\* str.strip(): the string between its first and last non-space characters.
Strip(s) ==
    LET keep == {i \in 1..Len(s) : ~IsSpace(SubSeq(s, i, i))}
    IN  IF keep = {} THEN ""
        ELSE LET lo == CHOOSE i \in keep : \A j \in keep : i <= j
                 hi == CHOOSE i \in keep : \A j \in keep : j <= i
             IN  SubSeq(s, lo, hi)

\* _norm(s): (s or "").strip().lower(), s an optional string.
norm(s) == IF IsNone(s) THEN "" ELSE Lower(Strip(Get(s)))

\* Python's `needle in haystack` for strings.
Contains(haystack, needle) ==
    \E i \in 1..(Len(haystack) - Len(needle) + 1) :
        SubSeq(haystack, i, i + Len(needle) - 1) = needle

\* _contains_any(haystack, needles)
contains_any(haystack, needles) == \E n \in needles : Contains(haystack, n)

-----------------------------------------------------------------------------
(* Decimal literals: the regular expression \d+(?:\.\d+)? and float().     *)

RECURSIVE DigitsEnd(_, _)
\* The first position at or after i that holds no digit (\d* from i).
DigitsEnd(s, i) == IF IsDigit(CharAt(s, i)) THEN DigitsEnd(s, i + 1) ELSE i

RECURSIVE SpacesEnd(_, _)
\* The first position at or after i that holds no white space (\s* from i).
SpacesEnd(s, i) == IF IsSpace(CharAt(s, i)) THEN SpacesEnd(s, i + 1) ELSE i

\* \d+(?:\.\d+)? matched at position i: the position after the literal, or 0
\* when no digit stands at i.  Both quantifiers are greedy, and what follows
\* the literal in every pattern starts with no digit and no dot, so the
\* greedy match is the only one the pattern can use.
NumberEnd(s, i) ==
    IF ~IsDigit(CharAt(s, i)) THEN 0
    ELSE LET e == DigitsEnd(s, i)
         IN  IF CharAt(s, e) = "." /\ IsDigit(CharAt(s, e + 1))
             THEN DigitsEnd(s, e + 1)
             ELSE e

RECURSIVE ParseNat(_)
\* The value of a string of digits.
ParseNat(ds) ==
    IF ds = "" THEN 0
    ELSE 10 * ParseNat(SubSeq(ds, 1, Len(ds) - 1)) + DigitVal[SubSeq(ds, Len(ds), Len(ds))]

RECURSIVE StripZeros(_)
\* A string of digits without its trailing zeros.
StripZeros(ds) ==
    IF ds # "" /\ SubSeq(ds, Len(ds), Len(ds)) = "0"
    THEN StripZeros(SubSeq(ds, 1, Len(ds) - 1))
    ELSE ds

\* float(lit) of a literal matched by \d+(?:\.\d+)?
Float(lit) ==
    LET dot == IndexIn(lit, ".")
    IN  IF dot = {} THEN [whole |-> ParseNat(lit), frac |-> ""]
        ELSE LET d == CHOOSE k \in dot : TRUE
             IN  [whole |-> ParseNat(SubSeq(lit, 1, d - 1)),
                  frac  |-> StripZeros(SubSeq(lit, d + 1, Len(lit)))]

\* The float 0.0 of line 80.
Zero == [whole |-> 0, frac |-> ""]

\* x <= k, x >= k, x < k and x == k for a parsed float x and an integer k.
FloatLe(x, k) == x.whole < k \/ (x.whole = k /\ x.frac = "")

FloatGe(x, k) == x.whole >= k

FloatLt(x, k) == x.whole < k

FloatEq(x, k) == x.whole = k /\ x.frac = ""

\* f"{x:g}" for the floats the model parses (fewer than six significant
\* digits, below 1e6): the integer part, then the fraction when there is one.
FormatG(x) == ToString(x.whole) \o (IF x.frac = "" THEN "" ELSE "." \o x.frac)

-----------------------------------------------------------------------------
(* The four patterns of _extract_years, each matched at one position: the  *)
(* captured groups when the pattern matches there, None otherwise.  All    *)
(* four are compiled with re.I: they are matched on the lower-cased text,  *)
(* which has the same digits and white space at the same positions.        *)
(* The texts of the model are ASCII: the en dash alternative of the range  *)
(* separator never applies to them.                                        *)

\* The literal lit stands at position i of s.
LitAt(s, i, lit) ==
    /\ i >= 1
    /\ i + Len(lit) - 1 <= Len(s)
    /\ SubSeq(s, i, i + Len(lit) - 1) = lit

\* years? at position i (the optional s changes neither match nor groups).
YearsAt(s, i) == LitAt(s, i, "year")

\* (\d+(?:\.\d+)?)\s*(?:-|to)\s*(\d+(?:\.\d+)?)\s*(?:\+?\s*)?years?
range_pat(s, i) ==
    LET e1  == NumberEnd(s, i)
        a   == SpacesEnd(s, e1)
        sep == IF CharAt(s, a) = "-" THEN a + 1
               ELSE IF LitAt(s, a, "to") THEN a + 2
               ELSE 0
        b   == SpacesEnd(s, sep)
        e2  == NumberEnd(s, b)
        c   == SpacesEnd(s, e2)
        y   == IF CharAt(s, c) = "+" THEN SpacesEnd(s, c + 1) ELSE c
    IN  IF e1 # 0 /\ sep # 0 /\ e2 # 0 /\ YearsAt(s, y)
        THEN Some([g1 |-> SubSeq(s, i, e1 - 1), g2 |-> SubSeq(s, b, e2 - 1)])
        ELSE None

\* up to\s*(\d+(?:\.\d+)?)\s*years?
upto_pat(s, i) ==
    LET a == SpacesEnd(s, i + 5)
        e == NumberEnd(s, a)
    IN  IF LitAt(s, i, "up to") /\ e # 0 /\ YearsAt(s, SpacesEnd(s, e))
        THEN Some([g1 |-> SubSeq(s, a, e - 1)])
        ELSE None

\* (\d+(?:\.\d+)?)\s*\+\s*years?
plus_pat(s, i) ==
    LET e == NumberEnd(s, i)
        a == SpacesEnd(s, e)
    IN  IF e # 0 /\ CharAt(s, a) = "+" /\ YearsAt(s, SpacesEnd(s, a + 1))
        THEN Some([g1 |-> SubSeq(s, i, e - 1)])
        ELSE None

\* (?:at least|min(?:imum)?(?: of)?)\s*(\d+(?:\.\d+)?)\s*years?
atleast_pat(s, i) ==
    LET m1  == IF LitAt(s, i + 3, "imum") THEN i + 7 ELSE i + 3
        m2  == IF LitAt(s, m1, " of") THEN m1 + 3 ELSE m1
        pfx == IF LitAt(s, i, "at least") THEN i + 8
               ELSE IF LitAt(s, i, "min") THEN m2
               ELSE 0
        a   == SpacesEnd(s, pfx)
        e   == NumberEnd(s, a)
    IN  IF pfx # 0 /\ e # 0 /\ YearsAt(s, SpacesEnd(s, e))
        THEN Some([g1 |-> SubSeq(s, a, e - 1)])
        ELSE None

\* The compiled pattern of the given name matched at position i of s.
match_at(name, s, i) ==
    CASE name = "range_pat"   -> range_pat(s, i)
      [] name = "upto_pat"    -> upto_pat(s, i)
      [] name = "plus_pat"    -> plus_pat(s, i)
      [] name = "atleast_pat" -> atleast_pat(s, i)

\* pat.search(s) for the pattern of the given name, compiled with re.I: the
\* match at the leftmost position where the pattern matches, None when it
\* matches nowhere.
Search(name, s) ==
    LET low == Lower(s)
        ms  == [i \in 1..Len(low) |-> match_at(name, low, i)]
        at  == {i \in 1..Len(low) : ~IsNone(ms[i])}
    IN  IF at = {} THEN None
        ELSE ms[CHOOSE i \in at : \A j \in at : i <= j]

\* Mutant of pattern_order: the "at least/minimum" pattern is tried first.
pattern_order_AtLeastFirst == <<"atleast_pat", "range_pat", "upto_pat", "plus_pat">>

\* The order in which _extract_years tries its patterns (lines 66, 75, 83, 91).
pattern_order == <<"range_pat", "upto_pat", "plus_pat", "atleast_pat">>

\* The triple _extract_years returns for a match m of the named pattern
\* (lines 69-72, 78-80, 86-88, 94-96).
years_of(name, m) ==
    CASE name = "range_pat" ->
            [min |-> Some(Float(m.g1)), max |-> Some(Float(m.g2)),
             evidence |-> <<"Years range: " \o FormatG(Float(m.g1))
                             \o "-" \o FormatG(Float(m.g2))>>]
      [] name = "upto_pat" ->
            [min |-> Some(Zero), max |-> Some(Float(m.g1)),
             evidence |-> <<"Years: up to " \o FormatG(Float(m.g1))>>]
      [] name = "plus_pat" ->
            [min |-> Some(Float(m.g1)), max |-> None,
             evidence |-> <<"Years: " \o FormatG(Float(m.g1)) \o "+">>]
      [] name = "atleast_pat" ->
            [min |-> Some(Float(m.g1)), max |-> None,
             evidence |-> <<"Years: at least " \o FormatG(Float(m.g1))>>]

RECURSIVE first_match(_, _, _)
\* The patterns of order tried from the k-th on: the result of the first one
\* that matches, (None, None, []) when none does (line 98).
first_match(order, k, t) ==
    IF k > Len(order) THEN [min |-> None, max |-> None, evidence |-> << >>]
    ELSE LET m == Search(order[k], t)
         IN  IF IsNone(m) THEN first_match(order, k + 1, t)
             ELSE years_of(order[k], Get(m))

\* _extract_years(text): (min_years, max_years, evidence_snippets)
extract_years(t) == first_match(pattern_order, 1, t)

-----------------------------------------------------------------------------
(* The keyword lists of scoring.py.                                        *)

SENIOR_TITLE_EXCLUDES ==
    {"senior", "lead", "manager", "principal", "head", "director", "vp",
     "vice president", "chief", "c-level", "partner"}

STRONG_POSITIVE_TITLE ==
    {"graduate", "junior", "trainee", "assistant", "coordinator",
     "administrator", "admin", "apprentice", "intern", "placement"}

STEALTH_JUNIOR_TITLE == {"analyst", "officer", "executive", "associate"}

STRONG_POSITIVE_TEXT ==
    {"entry level", "entry-level", "early career", "recent graduates",
     "new graduate", "graduate programme", "graduate program"}

INTERNSHIP_EQUIVALENT_TEXT ==
    {"internship", "industrial placement", "placement year",
     "part-time", "part time", "volunteer", "volunteering",
     "university project", "capstone", "student society", "society",
     "dissertation", "coursework", "or equivalent experience"}

SENIOR_LANGUAGE_EXCLUDES ==
    {"extensive experience", "significant experience", "expert",
     "seasoned", "own the strategy", "set strategy", "define strategy",
     "strategic ownership", "lead a team", "line manage", "people management"}

\* The list literal of line 168.
training_language ==
    {"training provided", "full training", "we will train",
     "learning and development", "development opportunity"}

positive_verbs ==
    {"assist", "support", "coordinate", "help", "learn", "shadow",
     "contribute", "maintain"}

negative_verbs ==
    {"lead", "own", "drive strategy", "set strategy", "define roadmap",
     "manage a team", "line manage"}

-----------------------------------------------------------------------------
(* score_grad_suitability.  The running pair (score, reasons) of the       *)
(* function is the record st; each `if cond: score += k; reasons.append`   *)
(* of the code is one Add.                                                 *)

\* The sentinel score of an excluded result (lines 124, 132, 146).
ExcludeScore == -999

\* Mutant of ExcludeResult: the exclude reason is not recorded.
ExcludeResult_NoReason(reason, reasons, mn, mx) ==
    [bucket |-> "EXCLUDE", score |-> ExcludeScore, reasons |-> reasons,
     exclude_reason |-> None,
     parsed_years_min |-> mn, parsed_years_max |-> mx]

\* Mutant of ExcludeResult: every exclude returns reasons=[] and no parsed
\* years, as the first two of the code do.
ExcludeResult_NoEvidence(reason, reasons, mn, mx) ==
    [bucket |-> "EXCLUDE", score |-> ExcludeScore, reasons |-> << >>,
     exclude_reason |-> Some(reason),
     parsed_years_min |-> None, parsed_years_max |-> None]

\* ScoringResult(bucket="EXCLUDE", score=-999, reasons=..., exclude_reason=...,
\* parsed_years_min=..., parsed_years_max=...)
ExcludeResult(reason, reasons, mn, mx) ==
    [bucket |-> "EXCLUDE", score |-> ExcludeScore, reasons |-> reasons,
     exclude_reason |-> Some(reason),
     parsed_years_min |-> mn, parsed_years_max |-> mx]

\* if cond: score += delta; reasons.append(reason)
Add(st, cond, delta, reason) ==
    IF cond
    THEN [score |-> st.score + delta, reasons |-> Append(st.reasons, reason)]
    ELSE st

\* Mutant of hard_exclude_A: the seniority label is not looked at.
hard_exclude_A_TitleOnly(t, lvl) == contains_any(t, SENIOR_TITLE_EXCLUDES)

\* The condition of line 121.
hard_exclude_A(t, lvl) ==
    contains_any(t, SENIOR_TITLE_EXCLUDES) \/ contains_any(lvl, SENIOR_TITLE_EXCLUDES)

\* The condition of line 129.
hard_exclude_B(d) == contains_any(d, SENIOR_LANGUAGE_EXCLUDES)

\* Mutant of hard_exclude_C: years_min > 5 in place of years_min >= 5.
hard_exclude_C_Over5(years_min) ==
    /\ ~IsNone(years_min)
    /\ FloatGe(Get(years_min), 5)
    /\ ~FloatEq(Get(years_min), 5)

\* The condition of line 143.
hard_exclude_C(years_min) == ~IsNone(years_min) /\ FloatGe(Get(years_min), 5)

\* Lines 153-176: the title and text signals.
signal_scoring(st, t, d) ==
    LET s1 == Add(st, contains_any(t, STRONG_POSITIVE_TITLE), 2,
                  "Strong junior title signal")
        s2 == Add(s1, contains_any(t, STEALTH_JUNIOR_TITLE), 1,
                  "Stealth junior title (needs evidence)")
        s3 == Add(s2, contains_any(d, STRONG_POSITIVE_TEXT), 2,
                  "Explicit entry-level / graduate language")
        s4 == Add(s3, contains_any(d, training_language), 1,
                  "Training/development language")
    IN  Add(s4, contains_any(d, INTERNSHIP_EQUIVALENT_TEXT), 2,
            "Internship/part-time/uni-project experience accepted")

\* Mutant of years_scoring: the four rules chained with elif, so that at
\* most one of them applies.
years_scoring_Elif(st, years_min, years_max, internship_equiv) ==
    IF ~IsNone(years_min) \/ ~IsNone(years_max) THEN
        IF ~IsNone(years_max) /\ FloatLe(Get(years_max), 2)
        THEN Add(st, TRUE, 2, "Experience requirement within 0-2 years")
        ELSE IF /\ ~IsNone(years_min)
                /\ FloatLe(Get(years_min), 2)
                /\ (IsNone(years_max) \/ FloatLe(Get(years_max), 2))
        THEN Add(st, TRUE, 1, "Low minimum experience (<=2 years)")
        ELSE IF ~IsNone(years_min) /\ FloatEq(Get(years_min), 2) /\ IsNone(years_max)
        THEN Add(st, TRUE, IF internship_equiv THEN 0 ELSE -1, "Borderline: 2+ years")
        ELSE Add(st, /\ ~IsNone(years_min)
                     /\ FloatGe(Get(years_min), 3)
                     /\ FloatLt(Get(years_min), 5),
                 -3, "Likely mid-level: 3+ years")
    ELSE Add(st, TRUE, 0, "No explicit years found")

\* Lines 178-203: the years-based scoring.  (The reason of line 183 is
\* written with an en dash in the source, a hyphen here.)
years_scoring(st, years_min, years_max, internship_equiv) ==
    IF ~IsNone(years_min) \/ ~IsNone(years_max) THEN
        LET s1 == Add(st, ~IsNone(years_max) /\ FloatLe(Get(years_max), 2), 2,
                      "Experience requirement within 0-2 years")
            s2 == Add(s1, /\ ~IsNone(years_min)
                          /\ FloatLe(Get(years_min), 2)
                          /\ (IsNone(years_max) \/ FloatLe(Get(years_max), 2)),
                      1, "Low minimum experience (<=2 years)")
            s3 == Add(s2, /\ ~IsNone(years_min)
                          /\ FloatEq(Get(years_min), 2)
                          /\ IsNone(years_max),
                      IF internship_equiv THEN 0 ELSE -1,
                      "Borderline: 2+ years")
        IN  Add(s3, /\ ~IsNone(years_min)
                    /\ FloatGe(Get(years_min), 3)
                    /\ FloatLt(Get(years_min), 5),
                -3, "Likely mid-level: 3+ years")
    ELSE Add(st, TRUE, 0, "No explicit years found")

\* sum(1 for v in verbs if v in d)
hits(verbs, d) == Cardinality({v \in verbs : Contains(d, v)})

\* Mutant of verb_scoring: the negative verbs are checked before the
\* positive ones.
verb_scoring_NegativeFirst(st, d) ==
    LET s1 == Add(st, hits(negative_verbs, d) >= 1, -2,
                  "Responsibilities include ownership/leadership language")
    IN  Add(s1, hits(positive_verbs, d) >= 2, 1,
            "Responsibilities look support/co-ordination focused")

\* Mutant of verb_scoring: the leadership penalty is -3.
verb_scoring_Penalty3(st, d) ==
    LET s1 == Add(st, hits(positive_verbs, d) >= 2, 1,
                  "Responsibilities look support/co-ordination focused")
    IN  Add(s1, hits(negative_verbs, d) >= 1, -3,
            "Responsibilities include ownership/leadership language")

\* Lines 205-216: the responsibility verb heuristic.
verb_scoring(st, d) ==
    LET s1 == Add(st, hits(positive_verbs, d) >= 2, 1,
                  "Responsibilities look support/co-ordination focused")
    IN  Add(s1, hits(negative_verbs, d) >= 1, -2,
            "Responsibilities include ownership/leadership language")

\* Lines 220-225.
strong_positive(t, d, years_max, internship_equiv) ==
    \/ contains_any(t, STRONG_POSITIVE_TITLE)
    \/ contains_any(d, STRONG_POSITIVE_TEXT)
    \/ (~IsNone(years_max) /\ FloatLe(Get(years_max), 2))
    \/ internship_equiv

\* Mutant of bucket_of: the score alone decides HIGH_CERTAINTY.
bucket_of_ScoreOnly(score, strong) ==
    IF score >= 4 THEN "HIGH_CERTAINTY" ELSE "LESS_CERTAIN"

\* Lines 227-232: the bucket of a result that is not excluded.
bucket_of(score, strong) ==
    IF score >= 4 /\ strong THEN "HIGH_CERTAINTY"
    ELSE IF score >= 2 THEN "LESS_CERTAIN"
    ELSE "LESS_CERTAIN"

\* Lines 234-241: the result of a posting that is not excluded, st being the
\* score and the reasons after the last rule, y the parsed years.
ScoringResult(st, strong, y) ==
    [bucket |-> bucket_of(st.score, strong),
     score |-> st.score,
     reasons |-> st.reasons,
     exclude_reason |-> None,
     parsed_years_min |-> y.min,
     parsed_years_max |-> y.max]

\* Lines 153-241: the soft scoring of a posting no pass excludes; the reasons
\* start with years_evidence (line 140).
soft_scoring(t, d, y, internship_equiv) ==
    ScoringResult(
        verb_scoring(
            years_scoring(
                signal_scoring([score |-> 0, reasons |-> y.evidence], t, d),
                y.min, y.max, internship_equiv),
            d),
        strong_positive(t, d, y.max, internship_equiv),
        y)

\* Lines 143-241: pass C and what follows it, y being the triple that
\* _extract_years(d) returned at line 138.
after_years(t, d, y) ==
    IF hard_exclude_C(y.min)
    THEN ExcludeResult("Minimum experience 5+ years", y.evidence, y.min, y.max)
    ELSE soft_scoring(t, d, y, contains_any(d, INTERNSHIP_EQUIVALENT_TEXT))

\* Lines 117-241: the function on its normalised fields (dep is computed at
\* line 114 and never read).
classify(t, d, dep, lvl) ==
    IF hard_exclude_A(t, lvl)
    THEN ExcludeResult("Senior title/level keyword", << >>, None, None)
    ELSE IF hard_exclude_B(d)
    THEN ExcludeResult("Senior language in description", << >>, None, None)
    ELSE after_years(t, d, extract_years(d))

\* Mutant of score_grad_suitability: the title keywords are also looked for
\* in the department.
score_grad_suitability_DeptInTitle(ti, de, dp, se) ==
    classify(norm(ti) \o " " \o norm(dp), norm(de), norm(dp), norm(se))

\* score_grad_suitability(title, description, department, seniority), each
\* argument an optional string.
score_grad_suitability(ti, de, dp, se) ==
    classify(norm(ti), norm(de), norm(dp), norm(se))

-----------------------------------------------------------------------------
(* The inputs of the model.                                                *)

\* The sequences over S of length at most n.
SeqsUpTo(S, n) == UNION {[1..k -> S] : k \in 0..n}

RECURSIVE Join(_, _)
\* sep.join(parts)
Join(parts, sep) ==
    IF parts = << >> THEN ""
    ELSE IF Len(parts) = 1 THEN parts[1]
    ELSE parts[1] \o sep \o Join(Tail(parts), sep)

Titles ==
    {"Graduate Analyst", "  SENIOR Commercial Manager ", "Operations Associate",
     "Software Engineer"}

Seniorities == {None, Some("Mid-Senior Level")}

Departments == {None, Some("Senior Graduate Programmes")}

\* Fragments of job descriptions; a description is up to MaxPhrases of them,
\* joined by single spaces as the caller's html_to_text joins text nodes.
DescPhrases ==
    {"Entry-level role, training provided, internship experience welcome, 0-2 years",
     "5+ years experience required. Lead strategy.",
     "2+ years experience preferred, help the team",
     "5 years experience",
     "At least 1 year",
     "up to 5 years",
     "Assist and support, full training",
     "Extensive experience",
     "Coursework counts",
     "3-5 years, own your projects"}

Descriptions == {Join(p, " ") : p \in SeqsUpTo(DescPhrases, MaxPhrases)}

\* Fragments of texts for _extract_years; a text is up to MaxYearsPhrases of
\* them, joined by ", ".
YearsPhrases ==
    {"1-2 years", "minimum of 3 years", "up to 2 years", "5+ years",
     "At Least 2 Years", "6 years", "3 to 5 years", "2.5+ years",
     "min 1 year", "experience"}

YearsTexts == {Join(p, ", ") : p \in SeqsUpTo(YearsPhrases, MaxYearsPhrases)}

-----------------------------------------------------------------------------
(* The state machine: one call of score_grad_suitability on a posting      *)
(* (Spec), and one call of _extract_years on a text (SpecYears).           *)

Init ==
    /\ title \in {Some(x) : x \in Titles}
    /\ description \in {Some(x) : x \in Descriptions}
    /\ department \in Departments
    /\ seniority \in Seniorities
    /\ result = None
    /\ text = ""
    /\ years = None
    /\ pc = "call"

\* result = score_grad_suitability(title, description, department, seniority)
Score ==
    /\ pc = "call"
    /\ result' = Some(score_grad_suitability(title, description, department, seniority))
    /\ pc' = "return"
    /\ UNCHANGED <<title, description, department, seniority, text, years>>

Next == Score

Spec == Init /\ [][Next]_vars

InitYears ==
    /\ title = None
    /\ description = None
    /\ department = None
    /\ seniority = None
    /\ result = None
    /\ text \in YearsTexts
    /\ years = None
    /\ pc = "extract"

\* years = _extract_years(text)
Extract ==
    /\ pc = "extract"
    /\ years' = Some(extract_years(text))
    /\ pc' = "extracted"
    /\ UNCHANGED <<title, description, department, seniority, result, text>>

NextYears == Extract

SpecYears == InitYears /\ [][NextYears]_vars

-----------------------------------------------------------------------------
(* What the claims speak about, stated on the inputs of the call: the      *)
(* normalised fields, the figures the extractor parses on the normalised   *)
(* description, the three hard-exclude conditions and the table of the     *)
(* discretionary rules.                                                    *)

Returned == pc = "return"

\* The call in the current state: its normalised fields (t, d, l), the
\* extractor's triple on d (y) and the result returned (r).
Call ==
    LET d == norm(description)
    IN  [t |-> norm(title), d |-> d, l |-> norm(seniority),
         y |-> extract_years(d), r |-> Get(result)]

ReasonA == "Senior title/level keyword"

ReasonB == "Senior language in description"

ReasonC == "Minimum experience 5+ years"

\* The text holds one of the keywords as a substring.
HasAny(txt, keywords) == \E k \in keywords : Contains(txt, k)

\* The number of the keywords the text holds as substrings.
CountOf(txt, keywords) == Cardinality({k \in keywords : Contains(txt, k)})

\* A: a senior keyword in the normalised title or seniority.
CondA(c) == HasAny(c.t, SENIOR_TITLE_EXCLUDES) \/ HasAny(c.l, SENIOR_TITLE_EXCLUDES)

\* B: a senior-language phrase in the normalised description.
CondB(c) == HasAny(c.d, SENIOR_LANGUAGE_EXCLUDES)

\* C: the parsed minimum is present and at least 5.
CondC(c) == c.y.min # None /\ Get(c.y.min).whole >= 5

NoHardExclude(c) == ~CondA(c) /\ ~CondB(c) /\ ~CondC(c)

IsExcluded(r, reason) == r.bucket = "EXCLUDE" /\ r.exclude_reason = <<reason>>

InternshipEquiv(c) == HasAny(c.d, INTERNSHIP_EQUIVALENT_TEXT)

MaxAtMost2(c) == c.y.max # None /\ FloatLe(Get(c.y.max), 2)

StrongPositive(c) ==
    \/ HasAny(c.t, STRONG_POSITIVE_TITLE)
    \/ HasAny(c.d, STRONG_POSITIVE_TEXT)
    \/ MaxAtMost2(c)
    \/ InternshipEquiv(c)

\* The rules of the discretionary scoring in their order of evaluation, each
\* with its condition, its delta and the string it logs.
RuleTable(c) ==
    <<[holds  |-> HasAny(c.t, STRONG_POSITIVE_TITLE),
       delta  |-> 2,
       reason |-> "Strong junior title signal"],
      [holds  |-> HasAny(c.t, STEALTH_JUNIOR_TITLE),
       delta  |-> 1,
       reason |-> "Stealth junior title (needs evidence)"],
      [holds  |-> HasAny(c.d, STRONG_POSITIVE_TEXT),
       delta  |-> 2,
       reason |-> "Explicit entry-level / graduate language"],
      [holds  |-> HasAny(c.d, training_language),
       delta  |-> 1,
       reason |-> "Training/development language"],
      [holds  |-> InternshipEquiv(c),
       delta  |-> 2,
       reason |-> "Internship/part-time/uni-project experience accepted"],
      [holds  |-> MaxAtMost2(c),
       delta  |-> 2,
       reason |-> "Experience requirement within 0-2 years"],
      [holds  |-> /\ c.y.min # None
                  /\ FloatLe(Get(c.y.min), 2)
                  /\ (c.y.max = None \/ FloatLe(Get(c.y.max), 2)),
       delta  |-> 1,
       reason |-> "Low minimum experience (<=2 years)"],
      [holds  |-> c.y.min = <<[whole |-> 2, frac |-> ""]>> /\ c.y.max = None,
       delta  |-> IF InternshipEquiv(c) THEN 0 ELSE -1,
       reason |-> "Borderline: 2+ years"],
      [holds  |-> /\ c.y.min # None
                  /\ Get(c.y.min).whole >= 3
                  /\ Get(c.y.min).whole < 5,
       delta  |-> -3,
       reason |-> "Likely mid-level: 3+ years"],
      [holds  |-> c.y.min = None /\ c.y.max = None,
       delta  |-> 0,
       reason |-> "No explicit years found"],
      [holds  |-> CountOf(c.d, positive_verbs) >= 2,
       delta  |-> 1,
       reason |-> "Responsibilities look support/co-ordination focused"],
      [holds  |-> CountOf(c.d, negative_verbs) >= 1,
       delta  |-> -2,
       reason |-> "Responsibilities include ownership/leadership language"]>>

RECURSIVE SumDeltas(_, _)
\* The sum of the deltas of the rules of table that hold, from the k-th on.
SumDeltas(table, k) ==
    IF k > Len(table) THEN 0
    ELSE (IF table[k].holds THEN table[k].delta ELSE 0) + SumDeltas(table, k + 1)

RECURSIVE HeldReasons(_, _)
\* The strings of the rules of table that hold, in the order of the table.
HeldReasons(table, k) ==
    IF k > Len(table) THEN << >>
    ELSE (IF table[k].holds THEN <<table[k].reason>> ELSE << >>)
             \o HeldReasons(table, k + 1)

-----------------------------------------------------------------------------
(* C1: exclude_reason is present exactly when the bucket is EXCLUDE, and   *)
(* an excluded result has the score -999.                                  *)
C1_ExcludeReasonIffExclude ==
    Returned =>
        LET r == Get(result)
        IN  /\ (r.exclude_reason # None) <=> (r.bucket = "EXCLUDE")
            /\ r.bucket = "EXCLUDE" => r.score = -999
            /\ r.bucket \in {"HIGH_CERTAINTY", "LESS_CERTAIN", "EXCLUDE"}

\* An excluded result and its reason have been returned.
C1_Witness ==
    Returned /\ Get(result).bucket = "EXCLUDE" /\ Get(result).exclude_reason # None

(* C2: the hard excludes are decided in the order A, B, C; the first whose *)
(* condition holds gives the result and its single exclude_reason.         *)
C2_HardExcludeOrder ==
    Returned =>
        LET c == Call
        IN  /\ CondA(c) => IsExcluded(c.r, ReasonA)
            /\ (~CondA(c) /\ CondB(c)) => IsExcluded(c.r, ReasonB)
            /\ (~CondA(c) /\ ~CondB(c) /\ CondC(c)) => IsExcluded(c.r, ReasonC)
            /\ Len(c.r.exclude_reason) <= 1

\* All three conditions hold at once, A through the seniority field only.
C2_Witness ==
    /\ Returned
    /\ LET c == Call
       IN  /\ CondB(c) /\ CondC(c)
           /\ ~HasAny(c.t, SENIOR_TITLE_EXCLUDES)
           /\ HasAny(c.l, SENIOR_TITLE_EXCLUDES)
           /\ IsExcluded(c.r, ReasonA)

\* The number of digits in the text.
DigitCount(txt) == Cardinality({i \in 1..Len(txt) : IsDigit(CharAt(txt, i))})

\* A number of 5 or more stands at position i, followed by "years" or by
\* "+" and "years" ("5 years", "5+ years", "6 years").
FiveOrMoreYearsAt(txt, i) ==
    LET e == NumberEnd(txt, i)
        a == SpacesEnd(txt, e)
        y == IF CharAt(txt, a) = "+" THEN SpacesEnd(txt, a + 1) ELSE a
    IN  /\ e # 0
        /\ Float(SubSeq(txt, i, e - 1)).whole >= 5
        /\ LitAt(txt, y, "year")

\* The only figure of the text is a number of 5 or more years.
SaysFiveOrMoreYears(txt) ==
    /\ DigitCount(txt) = 1
    /\ \E i \in 1..Len(txt) : FiveOrMoreYearsAt(txt, i)

(* C3 as stated: without an earlier hard exclude, a description whose only *)
(* figure is a number of 5 or more followed by "years" or "+ years"        *)
(* ("5 years", "5+ years", "6 years") is excluded for its minimum          *)
(* experience.                                                             *)
C3_Original ==
    Returned =>
        LET c == Call
        IN  (~CondA(c) /\ ~CondB(c) /\ SaysFiveOrMoreYears(c.d))
                => IsExcluded(c.r, ReasonC)

(* C3 as amended: without an earlier hard exclude, the result is excluded  *)
(* for its minimum experience exactly when the extractor's parsed minimum  *)
(* is present and at least 5; a lone "N+ years" with N >= 5 is, and a lone *)
(* "N years" that none of the four patterns matches is not.                *)
C3_ParsedMinimumExcludes ==
    Returned =>
        LET c == Call
            lone == SaysFiveOrMoreYears(c.d)
        IN  (~CondA(c) /\ ~CondB(c)) =>
                /\ CondC(c) <=> IsExcluded(c.r, ReasonC)
                /\ (lone /\ Contains(c.d, "+")) => IsExcluded(c.r, ReasonC)
                /\ (lone /\ c.y.evidence = << >>) => c.r.bucket # "EXCLUDE"

\* "5+ years" alone in a description that passes A and B has been excluded.
C3_Witness ==
    /\ Returned
    /\ LET c == Call
       IN  /\ ~CondA(c) /\ ~CondB(c)
           /\ SaysFiveOrMoreYears(c.d) /\ Contains(c.d, "+")
           /\ Get(c.y.min) = [whole |-> 5, frac |-> ""]
           /\ IsExcluded(c.r, ReasonC)

(* C5: when no hard exclude fires the bucket is HIGH_CERTAINTY exactly     *)
(* when score >= 4 and strong_positive holds, and LESS_CERTAIN otherwise;  *)
(* EXCLUDE comes from a hard exclude only.                                 *)
C5_Bucketing ==
    Returned =>
        LET c == Call
        IN  /\ NoHardExclude(c) =>
                /\ c.r.bucket = "HIGH_CERTAINTY"
                       <=> (c.r.score >= 4 /\ StrongPositive(c))
                /\ c.r.bucket \in {"HIGH_CERTAINTY", "LESS_CERTAIN"}
            /\ c.r.bucket = "EXCLUDE" => ~NoHardExclude(c)

\* A score of 4 or more without any strong positive signal stayed LESS_CERTAIN.
C5_Witness ==
    /\ Returned
    /\ LET c == Call
       IN  /\ NoHardExclude(c)
           /\ c.r.score >= 4
           /\ ~StrongPositive(c)
           /\ c.r.bucket = "LESS_CERTAIN"

(* C6: when no hard exclude fires the score is the sum of the deltas of    *)
(* exactly the rules whose conditions hold, each counted once.             *)
C6_ScoreIsSumOfDeltas ==
    Returned =>
        LET c == Call
        IN  NoHardExclude(c) => c.r.score = SumDeltas(RuleTable(c), 1)

\* Rules b and c applied together: the minimum is 2 and the maximum absent.
C6_Witness ==
    /\ Returned
    /\ LET c == Call
       IN  /\ NoHardExclude(c)
           /\ c.y.min = <<[whole |-> 2, frac |-> ""]>>
           /\ c.y.max = None
           /\ ~InternshipEquiv(c)
           /\ c.r.score = SumDeltas(RuleTable(c), 1)

(* C7: a result excluded by pass A or B has no reasons and no parsed       *)
(* years; one excluded by pass C carries the extractor's figures and has   *)
(* the extractor's evidence string as its only reason.                     *)
C7_ExcludedResultFields ==
    Returned =>
        LET c == Call
        IN  /\ (c.r.exclude_reason = <<ReasonA>> \/ c.r.exclude_reason = <<ReasonB>>) =>
                /\ c.r.reasons = << >>
                /\ c.r.parsed_years_min = None
                /\ c.r.parsed_years_max = None
            /\ c.r.exclude_reason = <<ReasonC>> =>
                /\ c.r.parsed_years_min = c.y.min
                /\ c.r.parsed_years_max = c.y.max
                /\ c.r.reasons = c.y.evidence
                /\ Len(c.r.reasons) = 1

\* A pass C exclude whose description would also have earned scoring reasons.
C7_Witness ==
    /\ Returned
    /\ LET c == Call
       IN  /\ c.r.exclude_reason = <<ReasonC>>
           /\ HasAny(c.d, training_language)
           /\ CountOf(c.d, positive_verbs) >= 2

(* C8: the reasons of a result that is not excluded are the years evidence *)
(* (when a pattern matched) followed by the strings of the rules that      *)
(* triggered, in the order of evaluation, each at most once; "No explicit  *)
(* years found" is among them exactly when both figures are absent.        *)
C8_ReasonsInEvaluationOrder ==
    Returned =>
        LET c == Call
            held == HeldReasons(RuleTable(c), 1)
        IN  c.r.bucket # "EXCLUDE" =>
                /\ c.r.reasons = c.y.evidence \o held
                /\ \A i, j \in 1..Len(c.r.reasons) :
                       c.r.reasons[i] = c.r.reasons[j] => i = j
                /\ (\E i \in 1..Len(c.r.reasons) :
                        c.r.reasons[i] = "No explicit years found")
                       <=> (c.r.parsed_years_min = None /\ c.r.parsed_years_max = None)

\* Evidence, title, text, years and both verb rules all logged in one result.
C8_Witness ==
    /\ Returned
    /\ LET c == Call
       IN  /\ c.r.bucket # "EXCLUDE"
           /\ c.y.evidence # << >>
           /\ CountOf(c.d, positive_verbs) >= 2
           /\ CountOf(c.d, negative_verbs) >= 1
           /\ Len(c.r.reasons) >= 5

\* Departments and seniority labels to compare the call with.
OtherDepartments == Departments

OtherSeniorities == Seniorities \cup {Some("Graduate Entry Level")}

(* C9: the result does not depend on the department, and depends on the    *)
(* seniority only through hard-exclude pass A.                             *)
C9_DepartmentAndSeniorityIgnored ==
    Returned =>
        /\ \A dp \in OtherDepartments \ {department} :
               score_grad_suitability(title, description, dp, seniority) = Get(result)
        /\ \A se \in OtherSeniorities \ {seniority} :
               (HasAny(norm(se), SENIOR_TITLE_EXCLUDES)
                    <=> HasAny(norm(seniority), SENIOR_TITLE_EXCLUDES))
                   => score_grad_suitability(title, description, department, se)
                          = Get(result)

\* A scored result for a posting whose department holds senior and junior keywords.
C9_Witness ==
    /\ Returned
    /\ HasAny(norm(department), SENIOR_TITLE_EXCLUDES)
    /\ HasAny(norm(department), STRONG_POSITIVE_TITLE)
    /\ seniority = None
    /\ Get(result).bucket = "LESS_CERTAIN"
    /\ Get(result).score < 2

(* C10: the score of a result that is not excluded lies between -5 and 12  *)
(* and its reasons are not empty, so the score is -999 exactly when the    *)
(* bucket is EXCLUDE.                                                      *)
C10_ScoreRange ==
    Returned =>
        LET r == Get(result)
        IN  /\ r.bucket # "EXCLUDE" =>
                (r.score >= -5 /\ r.score <= 12 /\ r.reasons # << >>)
            /\ (r.score = -999) <=> (r.bucket = "EXCLUDE")

\* The lowest score: the mid-level penalty and the leadership penalty alone.
C10_Witness ==
    Returned /\ Get(result).bucket = "LESS_CERTAIN" /\ Get(result).score = -5

\* The highest score: every positive rule applied.
C10_HighestScore ==
    Returned /\ Get(result).bucket = "HIGH_CERTAINTY" /\ Get(result).score = 12

-----------------------------------------------------------------------------
\* The matches of a pattern at all positions of the text.
MatchesOf(name, txt) ==
    LET low == Lower(txt)
    IN  {Get(match_at(name, low, i)) :
             i \in {j \in 1..Len(low) : match_at(name, low, j) # None}}

(* C4: _extract_years returns the figures of the first of the patterns     *)
(* range, "up to", "N+", "at least/minimum" that matches anywhere in the   *)
(* text, whatever matches the later ones; no match gives (None, None)      *)
(* and no evidence.  "1-2 years, minimum of 3 years" yields (1, 2).        *)
C4_FirstPatternWins ==
    pc = "extracted" =>
        LET y  == Get(years)
            rs == MatchesOf("range_pat", text)
            us == MatchesOf("upto_pat", text)
            ps == MatchesOf("plus_pat", text)
            ls == MatchesOf("atleast_pat", text)
        IN  /\ rs # {} =>
                \E m \in rs : /\ y.min = <<Float(m.g1)>>
                              /\ y.max = <<Float(m.g2)>>
                              /\ Len(y.evidence) = 1
            /\ (rs = {} /\ us # {}) =>
                \E m \in us : /\ y.min = <<Zero>>
                              /\ y.max = <<Float(m.g1)>>
                              /\ Len(y.evidence) = 1
            /\ (rs = {} /\ us = {} /\ ps # {}) =>
                \E m \in ps : /\ y.min = <<Float(m.g1)>>
                              /\ y.max = None
                              /\ Len(y.evidence) = 1
            /\ (rs = {} /\ us = {} /\ ps = {} /\ ls # {}) =>
                \E m \in ls : /\ y.min = <<Float(m.g1)>>
                              /\ y.max = None
                              /\ Len(y.evidence) = 1
            /\ (rs = {} /\ us = {} /\ ps = {} /\ ls = {}) =>
                y = [min |-> None, max |-> None, evidence |-> << >>]
            /\ text = "1-2 years, minimum of 3 years" =>
                /\ y.min = <<[whole |-> 1, frac |-> ""]>>
                /\ y.max = <<[whole |-> 2, frac |-> ""]>>

\* The range of the spec's example won over the "minimum of" that follows it.
C4_Witness ==
    /\ pc = "extracted"
    /\ text = "1-2 years, minimum of 3 years"
    /\ MatchesOf("atleast_pat", text) # {}
    /\ Get(years).min = <<[whole |-> 1, frac |-> ""]>>
    /\ Get(years).max = <<[whole |-> 2, frac |-> ""]>>

=============================================================================
